---- MODULE Spec2Model ----
(***************************************************************************)
(* TurboSHAKE128 / TurboSHAKE256 (src/src/turboshake.ts): the 12-round     *)
(* Keccak-p[1600] permutation, the lane/byte codec, the sponge context     *)
(* (update / squeeze / squeezeInto / squeezeHex / ensureFinalized) and the *)
(* public entry points.                                                    *)
(*                                                                         *)
(* A 64-bit lane (a bigint masked by MASK_64 in the source) is the set of  *)
(* its one-bit positions: v = sum of 2^i for i in the set.  XOR is the     *)
(* symmetric difference, AND the intersection, OR the union, a shift moves *)
(* the positions, and "& MASK_64" keeps the positions 0..63.               *)
(***************************************************************************)
EXTENDS Integers, Sequences, FiniteSets, TLC

STATE_SIZE == 25

\* (1n << 64n) - 1n : the bit positions 0..63
MASK_64 == 0 .. 63

\* ---------------------------------------------------------------- bigint
Xor(a, b) == {i \in a \cup b : ~(i \in a /\ i \in b)}

And(a, b) == {i \in a : i \in b}

Or(a, b) == {i \in a \cup b : TRUE}

ShiftLeft(v, s) == {i + s : i \in v}

ShiftRight(v, s) == {i - s : i \in {j \in v : j >= s}}

\* ~v & MASK_64 for a non-negative v: the zero bits of v among 0..63
NotMasked(v) == {i \in MASK_64 : i \notin v}

\* BigInt(b) for a small non-negative number b (here always < 2^16)
BigInt(b) == {i \in 0 .. 15 : (b \div (2 ^ i)) % 2 = 1}

\* Number(v & 0xFFn) for a lane v
ByteOf(v) ==
  LET bit(i) == IF i \in v THEN 2 ^ i ELSE 0
  IN bit(0) + bit(1) + bit(2) + bit(3) + bit(4) + bit(5) + bit(6) + bit(7)

\* a 64-bit literal written as its four 16-bit words, most significant first
Lit64(w3, w2, w1, w0) ==
  Or(Or(ShiftLeft(BigInt(w3), 48), ShiftLeft(BigInt(w2), 32)),
     Or(ShiftLeft(BigInt(w1), 16), BigInt(w0)))

\* ROUND_CONSTANTS[i] is ROUND_CONSTANTS[i + 1] here (sequences start at 1)
ROUND_CONSTANTS ==
  << Lit64(0, 0, 0, 1),              Lit64(0, 0, 0, 32898),
     Lit64(32768, 0, 0, 32906),      Lit64(32768, 0, 32768, 32768),
     Lit64(0, 0, 0, 32907),          Lit64(0, 0, 32768, 1),
     Lit64(32768, 0, 32768, 32897),  Lit64(32768, 0, 0, 32777),
     Lit64(0, 0, 0, 138),            Lit64(0, 0, 0, 136),
     Lit64(0, 0, 32768, 32777),      Lit64(0, 0, 32768, 10),
     Lit64(0, 0, 32768, 32907),      Lit64(32768, 0, 0, 139),
     Lit64(32768, 0, 0, 32905),      Lit64(32768, 0, 0, 32771),
     Lit64(32768, 0, 0, 32770),      Lit64(32768, 0, 0, 128),
     Lit64(0, 0, 0, 32778),          Lit64(32768, 0, 32768, 10),
     Lit64(32768, 0, 32768, 32897),  Lit64(32768, 0, 0, 32896),
     Lit64(0, 0, 32768, 1),          Lit64(32768, 0, 32768, 32776) >>

\* a rotation that keeps the bits shifted past bit 63
rotl64Unmasked(value, shift) ==
  LET s == shift % 64
  IN IF s = 0
     THEN And(value, MASK_64)
     ELSE Or(ShiftLeft(value, s), ShiftRight(value, 64 - s))

rotl64(value, shift) ==
  LET s == shift % 64
  IN IF s = 0
     THEN And(value, MASK_64)
     ELSE And(Or(ShiftLeft(value, s), ShiftRight(value, 64 - s)), MASK_64)

\* ------------------------------------------------------------ control
\* Then(v, F): F applied to the value of v. The source evaluates strictly, one
\* statement after the other; Then computes v once, before F uses it.
Then(v, F(_)) == CHOOSE r \in {F(x) : x \in {v}} : TRUE

\* For(lo, hi, s, Body): the value of s after
\*     for (let i = lo; i < hi; i++) s = Body(i, s)
\* The iterations lo .. hi - 1 run in ascending order; the range is split in
\* two halves that run one after the other.
For(lo, hi, s, Body(_, _)) ==
  LET RECURSIVE Run(_, _, _)
      Run(from, to, q) ==
        IF to <= from
        THEN q
        ELSE IF to = from + 1
             THEN Body(from, q)
             ELSE LET mid == (from + to) \div 2
                      Rest(r) == Run(mid, to, r)
                  IN Then(Run(from, mid, q), Rest)
      All(q) == Run(lo, hi, q)
  IN Then(s, All)

\* ------------------------------------------------ keccakP1600_12rounds
\* The module-level scratch arrays thetaC, thetaD and chiRow are threaded
\* through the permutation: p is [state, thetaC, thetaD, chiRow].

\* a column parity that is XORed into what thetaC[x] held before
ThetaCBodyStale(x, p) ==
  [p EXCEPT !.thetaC[x] =
     Xor(@, Xor(Xor(Xor(Xor(p.state[x], p.state[x + 5]), p.state[x + 10]),
                    p.state[x + 15]), p.state[x + 20]))]

ThetaCBody(x, p) ==
  [p EXCEPT !.thetaC[x] =
     Xor(Xor(Xor(Xor(p.state[x], p.state[x + 5]), p.state[x + 10]),
             p.state[x + 15]), p.state[x + 20])]

ThetaDBody(x, p) ==
  [p EXCEPT !.thetaD[x] =
     Xor(p.thetaC[(x + 4) % 5], rotl64(p.thetaC[(x + 1) % 5], 1))]

ThetaApplyBody(x, p) ==
  LET d == p.thetaD[x]
  IN [p EXCEPT !.state[x]      = And(Xor(@, d), MASK_64),
               !.state[x + 5]  = And(Xor(@, d), MASK_64),
               !.state[x + 10] = And(Xor(@, d), MASK_64),
               !.state[x + 15] = And(Xor(@, d), MASK_64),
               !.state[x + 20] = And(Xor(@, d), MASK_64)]

ThetaC(p) == For(0, 5, p, ThetaCBody)

ThetaD(p) == For(0, 5, p, ThetaDBody)

ThetaApply(p) == For(0, 5, p, ThetaApplyBody)

Theta(p) == Then(Then(Then(p, ThetaC), ThetaD), ThetaApply)

\* rotation offsets that grow by one per step
RhoPiShiftLinear(t) == (t + 1) % 64

RhoPiShift(t) == (((t + 1) * (t + 2)) \div 2) % 64

\* a walk that moves to (y, (3x + 2y) mod 5)
RhoPiBodySwapped(t, w) ==
  LET shift == RhoPiShift(t)
      newX  == w.y
      newY  == (3 * w.x + 2 * w.y) % 5
      index == newX + 5 * newY
      temp  == w.p.state[index]
  IN [p       |-> [w.p EXCEPT !.state[index] = rotl64(w.current, shift)],
      current |-> temp,
      x       |-> newX,
      y       |-> newY]

\* the loop's locals travel with p: w is [p, current, x, y]
RhoPiBody(t, w) ==
  LET shift == RhoPiShift(t)
      newX  == w.y
      newY  == (2 * w.x + 3 * w.y) % 5
      index == newX + 5 * newY
      temp  == w.p.state[index]
  IN [p       |-> [w.p EXCEPT !.state[index] = rotl64(w.current, shift)],
      current |-> temp,
      x       |-> newX,
      y       |-> newY]

RhoPiLoop(t, p) ==
  For(0, t, [p |-> p, current |-> p.state[1], x |-> 1, y |-> 0], RhoPiBody)

RhoPi(p) == RhoPiLoop(24, p).p

ChiRow(yCoord, p) ==
  LET offset == 5 * yCoord
      CopyBody(xCoord, q) == [q EXCEPT !.chiRow[xCoord] = q.state[offset + xCoord]]
      WriteBody(xCoord, q) ==
        [q EXCEPT !.state[offset + xCoord] =
           And(Xor(q.chiRow[xCoord],
                   And(NotMasked(q.chiRow[(xCoord + 1) % 5]),
                       q.chiRow[(xCoord + 2) % 5])),
               MASK_64)]
      Copy(q)  == For(0, 5, q, CopyBody)
      Write(q) == For(0, 5, q, WriteBody)
  IN Then(Then(p, Copy), Write)

Chi(p) == For(0, 5, p, ChiRow)

\* an iota that takes the constants from the start of the table
IotaFromFirst(roundIndex, p) ==
  [p EXCEPT !.state[0] = And(Xor(@, ROUND_CONSTANTS[roundIndex - 12 + 1]), MASK_64)]

Iota(roundIndex, p) ==
  [p EXCEPT !.state[0] = And(Xor(@, ROUND_CONSTANTS[roundIndex + 1]), MASK_64)]

Round(roundIndex, p) ==
  LET DoIota(q) == Iota(roundIndex, q)
  IN Then(Then(Then(Then(p, Theta), RhoPi), Chi), DoIota)

\* p.trace counts the call (see NoTrace)
keccakP1600_12rounds(p) ==
  [For(24 - 12, 24, p, Round) EXCEPT !.trace.permutations = @ + 1]

\* ------------------------------------------------------ lane/byte codec
Max(a, b) == IF a >= b THEN a ELSE b

\* block is a sequence of bytes: block[i] of the source is block[i + 1];
\* p.trace keeps the highest byte position written, plus one (see NoTrace)
xorBlock(p, blockArg) ==
  LET XorAll(block) ==
        LET Body(i, q) ==
              LET laneIndex == i \div 8
                  shift     == (i % 8) * 8
              IN [q EXCEPT !.state[laneIndex] =
                    And(Xor(@, ShiftLeft(BigInt(block[i + 1]), shift)), MASK_64)]
        IN [For(0, Len(block), p, Body) EXCEPT !.trace.xorHigh = Max(@, Len(block))]
  IN Then(blockArg, XorAll)

\* a read that ignores sourceOffset and starts at byte 0 of the state
readStateBytesFromStart(stateArg, sourceOffset, target, targetOffset, length) ==
  LET ReadAll(state) ==
        LET Body(i, t) ==
              [t EXCEPT ![targetOffset + i + 1] =
                 ByteOf(ShiftRight(state[i \div 8], (i % 8) * 8))]
        IN For(0, length, target, Body)
  IN Then(stateArg, ReadAll)

\* target is a sequence of bytes: target[i] of the source is target[i + 1]
readStateBytes(stateArg, sourceOffset, target, targetOffset, length) ==
  LET ReadAll(state) ==
        LET Body(i, t) ==
              LET index     == sourceOffset + i
                  laneIndex == index \div 8
                  shift     == (index % 8) * 8
              IN [t EXCEPT ![targetOffset + i + 1] = ByteOf(ShiftRight(state[laneIndex], shift))]
        IN For(0, length, target, Body)
  IN Then(stateArg, ReadAll)

\* ------------------------------------------------------------ JS values
\* A number is NaN or a multiple of one half (twice holds twice its value);
\* undefined stands for an omitted argument.
Num(n) == [kind |-> "number", twice |-> 2 * n]
HalfOf(h) == [kind |-> "number", twice |-> h]
NaN == [kind |-> "NaN", twice |-> 0]
undefined == [kind |-> "undefined", twice |-> 0]
IsInteger(x) == x.kind = "number" /\ x.twice % 2 = 0
Less(x, y) == x.kind = "number" /\ y.kind = "number" /\ x.twice < y.twice
LessEq(x, y) == x.kind = "number" /\ y.kind = "number" /\ x.twice <= y.twice
Plus(x, y) ==
  IF x.kind = "number" /\ y.kind = "number" THEN HalfOf(x.twice + y.twice) ELSE NaN
Minus(x, y) ==
  IF x.kind = "number" /\ y.kind = "number" THEN HalfOf(x.twice - y.twice) ELSE NaN
\* the mathematical value of an integral number
IntOf(x) == x.twice \div 2

\* new Uint8Array(n): n zero bytes
Zeros(n) ==
  LET Body(i, t) == Append(t, 0)
  IN For(0, n, << >>, Body)
Uint8Array(bytes) == [kind |-> "Uint8Array", data |-> bytes]
\* any other ArrayBufferView, given by the bytes of its window on its buffer
BufferView(bytes) == [kind |-> "ArrayBufferView", data |-> bytes]
\* a plain array of integers, which is array-like without being a byte view
ArrayLike(items) == [kind |-> "Array", data |-> items]

ensureUint8Array(messageArg) ==
  LET Convert(message) ==
        IF message.kind = "Uint8Array"
        THEN message.data
        ELSE IF message.kind = "ArrayBufferView"
        THEN message.data
        ELSE LET Body(i, array) == [array EXCEPT ![i + 1] = message.data[i + 1] % 256]
             IN For(0, Len(message.data), Zeros(Len(message.data)), Body)
  IN Then(messageArg, Convert)

\* ------------------------------------------------------------------ hex
\* A string is the sequence of its characters.
HexDigits == << "0", "1", "2", "3", "4", "5", "6", "7", "8", "9", "a", "b", "c", "d", "e", "f" >>
\* value.toString(16) for a byte
toString16(value) ==
  IF value < 16
  THEN << HexDigits[value + 1] >>
  ELSE << HexDigits[(value \div 16) + 1], HexDigits[(value % 16) + 1] >>
\* s.padStart(2, "0")
padStart2(s) == IF Len(s) >= 2 THEN s ELSE SubSeq(<< "0", "0" >>, 1, 2 - Len(s)) \o s
UpperOf(ch) ==
  CASE ch = "a" -> "A" [] ch = "b" -> "B" [] ch = "c" -> "C"
    [] ch = "d" -> "D" [] ch = "e" -> "E" [] ch = "f" -> "F"
    [] OTHER -> ch
\* a toUpperCase that leaves the string as it is
toUpperCaseKept(s) == s

toUpperCase(s) ==
  LET Body(i, t) == [t EXCEPT ![i + 1] = UpperOf(@)]
  IN For(0, Len(s), s, Body)

bytesToHex(bytesArg) ==
  LET Encode(bytes) ==
        LET Body(i, hex) == hex \o toUpperCase(padStart2(toString16(bytes[i + 1])))
        IN For(0, Len(bytes), << >>, Body)
  IN Then(bytesArg, Encode)

IsHexChar(ch) ==
  ch \in {"0", "1", "2", "3", "4", "5", "6", "7", "8", "9",
          "a", "b", "c", "d", "e", "f", "A", "B", "C", "D", "E", "F"}
\* the value of one hexadecimal digit
DigitValue(ch) ==
  CASE ch = "0" -> 0 [] ch = "1" -> 1 [] ch = "2" -> 2 [] ch = "3" -> 3
    [] ch = "4" -> 4 [] ch = "5" -> 5 [] ch = "6" -> 6 [] ch = "7" -> 7
    [] ch = "8" -> 8 [] ch = "9" -> 9
    [] ch \in {"a", "A"} -> 10 [] ch \in {"b", "B"} -> 11 [] ch \in {"c", "C"} -> 12
    [] ch \in {"d", "D"} -> 13 [] ch \in {"e", "E"} -> 14 [] ch \in {"f", "F"} -> 15
\* hex.replace(/[^0-9a-fA-F]/g, "")
CleanHex(hexArg) ==
  LET Clean(hex) ==
        LET Body(i, t) == IF IsHexChar(hex[i + 1]) THEN Append(t, hex[i + 1]) ELSE t
        IN For(0, Len(hex), << >>, Body)
  IN Then(hexArg, Clean)

\* the result is [throw, value]: throw is "none" or the name of the error thrown
hexToBytes(hex) ==
  LET Decode(clean) ==
        LET Body(i, bytes) ==
              [bytes EXCEPT ![i + 1] =
                 16 * DigitValue(clean[2 * i + 1]) + DigitValue(clean[2 * i + 2])]
        IN IF Len(clean) % 2 # 0
           THEN [throw |-> "Error", value |-> << >>]
           ELSE [throw |-> "none",
                 value |-> For(0, Len(clean) \div 2, Zeros(Len(clean) \div 2), Body)]
  IN Then(CleanHex(hex), Decode)

\* s.join(""): the text of a string held as its characters
Text(charsArg) ==
  LET Join(chars) ==
        LET Body(i, t) == t \o chars[i + 1]
        IN For(0, Len(chars), "", Body)
  IN Then(charsArg, Join)

\* ------------------------------------------------------ class TurboShake
\* a minimum that always answers its first argument
First(a, b) == a

\* Math.min
Min(a, b) == IF a <= b THEN a ELSE b

\* new Array(STATE_SIZE).fill(0n): lanes 0 .. 24, all zero
ZeroState ==
  LET Body(i, f) == f @@ (i :> {})
  IN For(1, STATE_SIZE, 0 :> {}, Body)
\* new Array<bigint>(5).fill(0n)
ZeroRow ==
  LET Body(i, f) == f @@ (i :> {})
  IN For(1, 5, 0 :> {}, Body)

\* a .set that ignores `at` and copies to the start of the array
SetBytesAtStart(array, sourceArg, at) ==
  LET Copy(source) == source \o SubSeq(array, Len(source) + 1, Len(array))
  IN Then(sourceArg, Copy)

\* typed array .set(source, at): the bytes of source copied to positions at, at + 1, ...
SetBytes(array, sourceArg, at) ==
  LET Copy(source) ==
        SubSeq(array, 1, at) \o source \o SubSeq(array, at + Len(source) + 1, Len(array))
  IN Then(sourceArg, Copy)

\* a constructor that takes any separation byte, keeping its low eight bits
constructorAnyByte(rate, separationByte) ==
  [throw |-> "none",
   value |-> [rate           |-> IntOf(rate),
              separationByte |-> IntOf(separationByte) % 256,
              state          |-> ZeroState,
              buffer         |-> Zeros(IntOf(rate)),
              bufferLength   |-> 0,
              finalized      |-> FALSE,
              squeezeOffset  |-> IntOf(rate)]]

\* The result is [throw, value]; value is the new object when throw is "none".
constructor(rate, separationByte) ==
  IF ~IsInteger(rate) \/ LessEq(rate, Num(0))
  THEN [throw |-> "RangeError", value |-> << >>]
  ELSE IF Less(separationByte, Num(0)) \/ Less(Num(255), separationByte)
          \/ ~IsInteger(separationByte)
  THEN [throw |-> "RangeError", value |-> << >>]
  ELSE [throw |-> "none",
        value |-> [rate           |-> IntOf(rate),
                   separationByte |-> IntOf(separationByte),
                   state          |-> ZeroState,
                   buffer         |-> Zeros(IntOf(rate)),
                   bufferLength   |-> 0,
                   finalized      |-> FALSE,
                   squeezeOffset  |-> IntOf(rate)]]

\* What one call does to the sponge, recorded beside the object while the call
\* runs: the permutations applied, the paddings applied, the highest position
\* (plus one) of a state byte written by an XOR and of a state byte read as
\* output, and the iterations of squeezeInto's loop that produced no byte.
NoTrace == [permutations |-> 0, pads |-> 0, xorHigh |-> 0, readHigh |-> 0, idle |-> 0]

\* A method runs on `this`: the fields of the object together with the module's
\* scratch arrays, which the permutation it calls writes, and an empty trace.
Bind(object, tC, tD, cR) ==
  [rate           |-> object.rate,
   separationByte |-> object.separationByte,
   state          |-> object.state,
   buffer         |-> object.buffer,
   bufferLength   |-> object.bufferLength,
   finalized      |-> object.finalized,
   squeezeOffset  |-> object.squeezeOffset,
   thetaC         |-> tC,
   thetaD         |-> tD,
   chiRow         |-> cR,
   trace          |-> NoTrace]
\* the object's own fields
Fields(this) ==
  [rate           |-> this.rate,
   separationByte |-> this.separationByte,
   state          |-> this.state,
   buffer         |-> this.buffer,
   bufferLength   |-> this.bufferLength,
   finalized      |-> this.finalized,
   squeezeOffset  |-> this.squeezeOffset]

\* this.state ^= block, then the permutation
Absorb(q, block) == keccakP1600_12rounds(xorBlock(q, block))

\* The locals of update travel with the object: w is [this, bufferLength, offset].
\* if (bufferLength > 0) { ... }: the buffered bytes are completed first
FillBuffer(chunk, w) ==
  IF w.bufferLength > 0
  THEN LET rate   == w.this.rate
           toFill == Min(rate - w.bufferLength, Len(chunk))
       IN Then([w.this EXCEPT !.buffer =
                  SetBytes(@, SubSeq(chunk, 1, toFill), w.bufferLength)],
               LAMBDA q :
                 IF w.bufferLength + toFill = rate
                 THEN [this         |-> Absorb(q, q.buffer),
                       bufferLength |-> 0,
                       offset       |-> w.offset + toFill]
                 ELSE [this         |-> q,
                       bufferLength |-> w.bufferLength + toFill,
                       offset       |-> w.offset + toFill])
  ELSE w

\* while (offset + rate <= chunkLength) { ... }
WholeBlocks(chunk, w) ==
  For(0,
      IF w.offset + w.this.rate <= Len(chunk)
      THEN (Len(chunk) - w.offset) \div w.this.rate
      ELSE 0,
      w,
      LAMBDA i, v :
        [this         |-> Absorb(v.this, SubSeq(chunk, v.offset + 1, v.offset + v.this.rate)),
         bufferLength |-> v.bufferLength,
         offset       |-> v.offset + v.this.rate])

\* if (offset < chunkLength) { ... }: the remaining bytes are buffered
Stash(chunk, w) ==
  IF w.offset < Len(chunk)
  THEN [this         |-> [w.this EXCEPT !.buffer =
                            SetBytes(@, SubSeq(chunk, w.offset + 1, Len(chunk)),
                                     w.bufferLength)],
        bufferLength |-> w.bufferLength + (Len(chunk) - w.offset),
        offset       |-> w.offset]
  ELSE w

\* an update that does not write the new buffer length back
StoreNothing(w) == w.this

\* this.bufferLength = bufferLength
Store(w) == [w.this EXCEPT !.bufferLength = w.bufferLength]

\* update past its check of finalized: the object after the message is absorbed
Absorbed(thisArg, message) ==
  Then(thisArg, LAMBDA this :
    Then(ensureUint8Array(message), LAMBDA chunk :
      Then(Then(Then(Then([this |-> this, bufferLength |-> this.bufferLength, offset |-> 0],
                          LAMBDA w : FillBuffer(chunk, w)),
                     LAMBDA w : WholeBlocks(chunk, w)),
                LAMBDA w : Stash(chunk, w)),
           Store)))

\* an update that does not look at finalized
updateUnchecked(thisArg, message) == [throw |-> "none", this |-> Absorbed(thisArg, message)]

\* The result is [throw, this].
update(thisArg, message) ==
  Then(thisArg, LAMBDA this :
    IF this.finalized
    THEN [throw |-> "Error", this |-> this]
    ELSE [throw |-> "none", this |-> Absorbed(this, message)])

\* a padding whose 0x80 goes into the first byte after the rate
PaddedPastRate(this) ==
  Then(Then([this EXCEPT !.buffer[this.bufferLength + 1] = this.separationByte,
                         !.bufferLength = @ + 1],
            LAMBDA q : xorBlock(q, SubSeq(q.buffer, 1, q.bufferLength))),
       LAMBDA q :
         [q EXCEPT !.state[q.rate \div 8] =
                     And(Xor(@, ShiftLeft(BigInt(128), (q.rate % 8) * 8)), MASK_64),
                   !.trace.pads = @ + 1,
                   !.trace.xorHigh = Max(@, q.rate + 1)])

\* a padding whose 0x80 goes into the byte after the separation byte
PaddedNextByte(this) ==
  Then(Then([this EXCEPT !.buffer[this.bufferLength + 1] = this.separationByte,
                         !.bufferLength = @ + 1],
            LAMBDA q : xorBlock(q, SubSeq(q.buffer, 1, q.bufferLength))),
       LAMBDA q :
         [q EXCEPT !.state[q.bufferLength \div 8] =
                     And(Xor(@, ShiftLeft(BigInt(128), (q.bufferLength % 8) * 8)), MASK_64),
                   !.trace.pads = @ + 1,
                   !.trace.xorHigh = Max(@, q.bufferLength + 1)])

\* ensureFinalized between its checks and the permutation: the separation
\* byte is appended to the buffer, the buffer is XORed into the state, and
\* 0x80 is XORed into the last byte of the rate
Padded(this) ==
  LET rate     == this.rate
      padIndex == rate - 1
      padLane  == padIndex \div 8
      padShift == (padIndex % 8) * 8
  IN Then(Then([this EXCEPT !.buffer[this.bufferLength + 1] = this.separationByte,
                            !.bufferLength = @ + 1],
               LAMBDA q : xorBlock(q, SubSeq(q.buffer, 1, q.bufferLength))),
          LAMBDA q :
            [q EXCEPT !.state[padLane] =
                        And(Xor(@, ShiftLeft(BigInt(128), padShift)), MASK_64),
                      !.trace.pads = @ + 1,
                      !.trace.xorHigh = Max(@, padIndex + 1)])

\* a finalization that pads with 0x1F whatever the separation byte is
ensureFinalizedFixedByte(thisArg) ==
  Then(thisArg, LAMBDA this :
    IF this.finalized
    THEN [throw |-> "none", this |-> this]
    ELSE Then(Then(Then(Then([this EXCEPT !.buffer[this.bufferLength + 1] = 31,
                                          !.bufferLength = @ + 1],
                             LAMBDA q : xorBlock(q, SubSeq(q.buffer, 1, q.bufferLength))),
                        LAMBDA q :
                          [q EXCEPT !.state[(q.rate - 1) \div 8] =
                             And(Xor(@, ShiftLeft(BigInt(128), ((q.rate - 1) % 8) * 8)),
                                 MASK_64)]),
                   keccakP1600_12rounds),
              LAMBDA q :
                [throw |-> "none",
                 this  |-> [q EXCEPT !.buffer = Zeros(q.rate),
                                     !.bufferLength = 0,
                                     !.finalized = TRUE,
                                     !.squeezeOffset = 0]]))

\* a finalization that does not look at finalized: every call pads and permutes
ensureFinalizedEveryTime(thisArg) ==
  Then(thisArg, LAMBDA this :
    [throw |-> "none",
     this  |-> Then(Then(Padded(this), keccakP1600_12rounds),
                    LAMBDA q : [q EXCEPT !.buffer = Zeros(q.rate),
                                         !.bufferLength = 0,
                                         !.finalized = TRUE,
                                         !.squeezeOffset = 0])])

\* a finalization that leaves the buffer and its length as they are
ensureFinalizedKeepsBuffer(thisArg) ==
  Then(thisArg, LAMBDA this :
    IF this.finalized
    THEN [throw |-> "none", this |-> this]
    ELSE [throw |-> "none",
          this  |-> Then(Then(Padded(this), keccakP1600_12rounds),
                         LAMBDA q : [q EXCEPT !.finalized = TRUE, !.squeezeOffset = 0])])

\* The result is [throw, this].
ensureFinalized(thisArg) ==
  Then(thisArg, LAMBDA this :
    IF this.finalized
    THEN [throw |-> "none", this |-> this]
    ELSE IF this.bufferLength >= this.rate
    THEN [throw |-> "Error", this |-> this]
    ELSE [throw |-> "none",
          this  |->
            Then(Then(Padded(this), keccakP1600_12rounds),
                 LAMBDA q :
                   [q EXCEPT !.buffer = Zeros(q.rate),
                             !.bufferLength = 0,
                             !.finalized = TRUE,
                             !.squeezeOffset = 0])])

\* The locals of squeezeInto's loop travel with the object: w is [this, data, produced].
\* a refill made in every iteration of the loop, wherever the cursor is
RefillEveryTime(w) ==
  [w EXCEPT !.this = [keccakP1600_12rounds(w.this) EXCEPT !.squeezeOffset = 0]]

\* a refill that rewinds the cursor without permuting the state
RefillSameBlock(w) ==
  IF w.this.squeezeOffset = w.this.rate
  THEN [w EXCEPT !.this.squeezeOffset = 0]
  ELSE w

\* if (this.squeezeOffset === this.rate) { ... }
Refill(w) ==
  IF w.this.squeezeOffset = w.this.rate
  THEN [w EXCEPT !.this = [keccakP1600_12rounds(w.this) EXCEPT !.squeezeOffset = 0]]
  ELSE w

\* the rest of the loop's body: chunk bytes are read from the state
Read(first, wanted, w) ==
  LET available == w.this.rate - w.this.squeezeOffset
      chunk     == Min(available, wanted - w.produced)
  IN [this     |-> [w.this EXCEPT !.squeezeOffset = @ + chunk,
                                  !.trace.readHigh = Max(@, w.this.squeezeOffset + chunk),
                                  !.trace.idle = @ + (IF chunk > 0 THEN 0 ELSE 1)],
      data     |-> readStateBytes(w.this.state, w.this.squeezeOffset,
                                  w.data, first + w.produced, chunk),
      produced |-> w.produced + chunk]

\* while (produced < actualLength) { ... }, from produced = 0
Produced(this, data, first, wanted) ==
  LET RECURSIVE Loop(_)
      Loop(w) ==
        IF w.produced < wanted
        THEN Then(Then(Then(w, Refill), LAMBDA v : Read(first, wanted, v)), Loop)
        ELSE w
  IN Loop([this |-> this, data |-> data, produced |-> 0])

\* The result is [throw, this, value]; value is the target after the call.
squeezeInto(thisArg, targetArg, offsetArg, length) ==
  Then(thisArg, LAMBDA this :
    Then(targetArg, LAMBDA target :
      LET offset == IF offsetArg = undefined THEN Num(0) ELSE offsetArg
          actualLength ==
            IF length = undefined THEN Minus(Num(Len(target.data)), offset) ELSE length
          Thrown(name) == [throw |-> name, this |-> this, value |-> target]
      IN
      IF target.kind # "Uint8Array"
      THEN Thrown("TypeError")
      ELSE IF ~IsInteger(offset) \/ Less(offset, Num(0)) \/ Less(Num(Len(target.data)), offset)
      THEN Thrown("RangeError")
      ELSE IF ~IsInteger(actualLength) \/ Less(actualLength, Num(0))
              \/ Less(Num(Len(target.data)), Plus(offset, actualLength))
      THEN Thrown("RangeError")
      ELSE IF actualLength = Num(0)
      THEN [throw |-> "none", this |-> this, value |-> target]
      ELSE Then(ensureFinalized(this), LAMBDA finalized :
             IF finalized.throw # "none"
             THEN [throw |-> finalized.throw, this |-> finalized.this, value |-> target]
             ELSE Then(Produced(finalized.this, target.data, IntOf(offset),
                                IntOf(actualLength)),
                       LAMBDA w :
                         [throw |-> "none", this |-> w.this, value |-> Uint8Array(w.data)]))))

\* a squeeze that draws at least one byte from the stream, and returns the
\* outputLength bytes asked for
squeezeRoundedUp(this, outputLength) ==
  IF Less(outputLength, Num(0)) \/ ~IsInteger(outputLength)
  THEN [throw |-> "RangeError", this |-> this, value |-> Uint8Array(<< >>)]
  ELSE LET n == IntOf(outputLength)
           Cut(r) == [r EXCEPT !.value = Uint8Array(SubSeq(@.data, 1, n))]
       IN Then(squeezeInto(this, Uint8Array(Zeros(IF n = 0 THEN 1 ELSE n)), undefined, undefined),
               Cut)

\* The result is [throw, this, value].
squeeze(this, outputLength) ==
  IF Less(outputLength, Num(0)) \/ ~IsInteger(outputLength)
  THEN [throw |-> "RangeError", this |-> this, value |-> Uint8Array(<< >>)]
  ELSE squeezeInto(this, Uint8Array(Zeros(IntOf(outputLength))), undefined, undefined)

\* a result whose bytes are put in hexadecimal
HexOf(resultArg) ==
  Then(resultArg, LAMBDA result :
    IF result.throw # "none"
    THEN [throw |-> result.throw, this |-> result.this, value |-> << >>]
    ELSE [throw |-> "none", this |-> result.this, value |-> bytesToHex(result.value.data)])

\* a squeezeHex that finalizes before it looks at its argument
squeezeHexEager(this, outputLength) ==
  HexOf(squeeze(ensureFinalized(this).this, outputLength))

\* The result is [throw, this, value]; value is a string.
squeezeHex(this, outputLength) == HexOf(squeeze(this, outputLength))

\* ------------------------------------------------------- entry points
\* scratch is [thetaC, thetaD, chiRow], the module's arrays when the call is made;
\* the result is [throw, this, value], this being the context the call worked on.
turboshake(scratch, rate, message, separationByte, outputLength) ==
  Then(constructor(rate, separationByte), LAMBDA made :
    IF made.throw # "none"
    THEN [throw |-> made.throw, this |-> scratch, value |-> Uint8Array(<< >>)]
    ELSE Then(update(Bind(made.value, scratch.thetaC, scratch.thetaD, scratch.chiRow),
                     message),
              LAMBDA fed :
                IF fed.throw # "none"
                THEN [throw |-> fed.throw, this |-> fed.this, value |-> Uint8Array(<< >>)]
                ELSE squeeze(fed.this, outputLength)))

turboshake128(scratch, message, separationByte, outputLength) ==
  turboshake(scratch, Num(168), message, separationByte, outputLength)

turboshake256(scratch, message, separationByte, outputLength) ==
  turboshake(scratch, Num(136), message, separationByte, outputLength)

turboshake128Hex(scratch, message, separationByte, outputLength) ==
  HexOf(turboshake128(scratch, message, separationByte, outputLength))

turboshake256Hex(scratch, message, separationByte, outputLength) ==
  HexOf(turboshake256(scratch, message, separationByte, outputLength))

createTurboShake128(separationByte) == constructor(Num(168), separationByte)

createTurboShake256(separationByte) == constructor(Num(136), separationByte)

\* =============================================================== machine
VARIABLES
  ctx,      \* the contexts created so far, by handle 1, 2, ...
  thetaC,   \* the module's scratch arrays
  thetaD,
  chiRow,
  msg,      \* per handle: the bytes its successful updates have absorbed, in order
  out,      \* per handle: the bytes its successful squeezes have returned, in order
  seed,     \* per handle: the context as it was after its last successful update
  call,     \* the last call: [op, handle, args, throw, value]
  work,     \* per handle: the traces of its calls, added up
  pos       \* where a permutation that is run step by step stands (Idle: none is)

vars == << ctx, thetaC, thetaD, chiRow, msg, out, seed, call, work, pos >>

Scratch == [thetaC |-> thetaC, thetaD |-> thetaD, chiRow |-> chiRow]
This(h) == Bind(ctx[h], thetaC, thetaD, chiRow)
Loaded == [op |-> "load", handle |-> 0, args |-> << >>, throw |-> "none", value |-> << >>]

\* the bytes i mod 251 for i = from .. from + n - 1 (pattern() of the tests)
Ptn(from, n) ==
  LET Body(i, t) == Append(t, i % 251)
  IN For(from, from + n, << >>, Body)
\* n bytes of value b
Filled(n, b) ==
  LET Body(i, t) == Append(t, b)
  IN For(0, n, << >>, Body)

\* no permutation is under way. Otherwise `pos` holds the locals of
\* keccakP1600_12rounds: roundIndex, the step of the round that runs next, and
\* inside the rho/pi loop t, current, x, y, with the lanes the loop started from.
Idle ==
  [step |-> "idle", roundIndex |-> 0, t |-> 0, current |-> {}, x |-> 0, y |-> 0,
   entered |-> << >>]

\* the module is loaded and the given contexts have been created
Start(objects) ==
  /\ ctx = objects
  /\ thetaC = ZeroRow
  /\ thetaD = ZeroRow
  /\ chiRow = ZeroRow
  /\ msg = [h \in DOMAIN objects |-> << >>]
  /\ out = [h \in DOMAIN objects |-> << >>]
  /\ seed = objects
  /\ call = Loaded
  /\ work = [h \in DOMAIN objects |-> NoTrace]
  /\ pos = Idle

\* the trace of a lifetime followed by the trace of one more call
Traced(sum, trace) ==
  [permutations |-> sum.permutations + trace.permutations,
   pads         |-> sum.pads + trace.pads,
   xorHigh      |-> Max(sum.xorHigh, trace.xorHigh),
   readHigh     |-> Max(sum.readHigh, trace.readHigh),
   idle         |-> sum.idle + trace.idle]

\* what a method call on handle h leaves behind; r is the method's result
Returned(h, op, args, r) ==
  /\ work' = [work EXCEPT ![h] = Traced(@, r.this.trace)]
  /\ pos' = pos
  /\ ctx' = [ctx EXCEPT ![h] = Fields(r.this)]
  /\ thetaC' = r.this.thetaC
  /\ thetaD' = r.this.thetaD
  /\ chiRow' = r.this.chiRow
  /\ call' = [op |-> op, handle |-> h, args |-> args, throw |-> r.throw, value |-> r.value]

\* ctx[h].update(message)
Update(h, message) ==
  \E r \in {update(This(h), message)} :
    /\ Returned(h, "update", << message >>, [throw |-> r.throw, this |-> r.this, value |-> << >>])
    /\ msg' = IF r.throw = "none" THEN [msg EXCEPT ![h] = @ \o ensureUint8Array(message)] ELSE msg
    /\ seed' = IF r.throw = "none" THEN [seed EXCEPT ![h] = Fields(r.this)] ELSE seed
    /\ out' = out

\* ctx[h].squeeze(outputLength)
Squeeze(h, outputLength) ==
  \E r \in {squeeze(This(h), outputLength)} :
    /\ Returned(h, "squeeze", << outputLength >>, r)
    /\ out' = IF r.throw = "none" THEN [out EXCEPT ![h] = @ \o r.value.data] ELSE out
    /\ UNCHANGED << msg, seed >>

\* ctx[h].squeezeHex(outputLength)
SqueezeHex(h, outputLength) ==
  \E r \in {squeezeHex(This(h), outputLength)} :
    /\ Returned(h, "squeezeHex", << outputLength >>, r)
    /\ out' = IF r.throw = "none" THEN [out EXCEPT ![h] = @ \o hexToBytes(r.value).value] ELSE out
    /\ UNCHANGED << msg, seed >>

\* the part of a target that squeezeInto(target, offset, length) is asked to fill
Asked(target, offset, length) ==
  LET first == IF offset = undefined THEN 0 ELSE IntOf(offset)
      count == IF length = undefined THEN Len(target.data) - first ELSE IntOf(length)
  IN [first |-> first, count |-> count]

\* ctx[h].squeezeInto(target, offset, length)
SqueezeInto(h, target, offset, length) ==
  \E r \in {squeezeInto(This(h), target, offset, length)} :
    /\ Returned(h, "squeezeInto", << target, offset, length >>, r)
    /\ out' = IF r.throw = "none"
              THEN LET part == Asked(target, offset, length)
                   IN [out EXCEPT ![h] =
                         @ \o SubSeq(r.value.data, part.first + 1, part.first + part.count)]
              ELSE out
    /\ UNCHANGED << msg, seed >>

\* ================================================================== Spec
\* One context of either variant: it absorbs the pattern message in chunks
\* of every shape and is squeezed with valid arguments.
MaxMessage == 337
MaxOutput == 64

Variants == {createTurboShake128(Num(31)), createTurboShake256(Num(6))}

Init == \E made \in Variants : Start(<< made.value >>)

ChunkLengths(rate) == {0, rate - 1, rate, rate + 1, 2 * rate + 1}
\* the next bytes of the pattern message, in a chunk of each length
Chunks(h) ==
  {Uint8Array(Ptn(Len(msg[h]), n)) :
     n \in {k \in ChunkLengths(ctx[h].rate) : Len(msg[h]) + k <= MaxMessage}}
SqueezeLengths(rate) == {0, 32}
Room(h, n) == Len(out[h]) + n <= MaxOutput

CallUpdate == \E h \in DOMAIN ctx : \E message \in Chunks(h) : Update(h, message)
CallSqueeze ==
  \E h \in DOMAIN ctx : \E n \in SqueezeLengths(ctx[h].rate) : Room(h, n) /\ Squeeze(h, Num(n))
CallSqueezeHex == \E h \in DOMAIN ctx : Room(h, 32) /\ SqueezeHex(h, Num(32))
CallSqueezeInto ==
  \E h \in DOMAIN ctx :
    Room(h, 32) /\ SqueezeInto(h, Uint8Array(Filled(40, 170)), Num(8), undefined)

Next == CallUpdate \/ CallSqueeze \/ CallSqueezeHex \/ CallSqueezeInto

Spec == Init /\ [][Next]_vars

SqueezeOps == {"squeeze", "squeezeInto", "squeezeHex"}

\* C1 (streaming equals one-shot): when the first squeeze(L) of a context
\* returns, whatever chunks its message arrived in, the L bytes are those the
\* one-shot turboshake(rate, M, D, L) returns for the whole message M.
StreamingEqualsOneShot ==
  \A h \in DOMAIN ctx :
    (call.handle = h /\ call.op = "squeeze" /\ call.throw = "none"
       /\ out[h] = call.value.data)
    => call.value.data
         = turboshake(Scratch, Num(ctx[h].rate), Uint8Array(msg[h]),
                      Num(ctx[h].separationByte), call.args[1]).value.data

\* two full blocks that no single chunk brought (no chunk is two blocks long),
\* then a first squeeze of 32 bytes
ChunkedThenSqueezed ==
  \E h \in DOMAIN ctx :
    /\ call.handle = h /\ call.op = "squeeze" /\ call.throw = "none"
    /\ Len(call.value.data) = 32 /\ out[h] = call.value.data
    /\ Len(msg[h]) = 2 * ctx[h].rate

\* C3 (update on a finalized context): the call throws, and the context, the
\* scratch arrays, the absorbed message and the output are as they were.
UpdateOnFinalizedRejected ==
  [][\A h \in DOMAIN ctx :
       (ctx[h].finalized /\ call'.op = "update" /\ call'.handle = h)
       => /\ call'.throw = "Error"
          /\ ctx' = ctx
          /\ UNCHANGED << thetaC, thetaD, chiRow, msg, out, seed >>]_vars

\* an update of zero bytes was refused by a context that has given output
UpdateRefused ==
  \E h \in DOMAIN ctx :
    /\ call.handle = h /\ call.op = "update" /\ call.throw = "Error"
    /\ call.args[1].data = << >>
    /\ ctx[h].finalized /\ Len(out[h]) = 64

\* C4 (the first output request finalizes): once a squeeze, squeezeInto or
\* squeezeHex call with valid arguments has returned, the context is finalized.
OutputRequestFinalizes ==
  \A h \in DOMAIN ctx :
    (call.handle = h /\ call.op \in SqueezeOps /\ call.throw = "none") => ctx[h].finalized

\* =========================================================== SpecStream
\* One context of either variant, with a short message or none, squeezed by
\* calls of every kind whose lengths add up past the end of a block.
MaxStreamMessage == 3
MaxStreamOutput == 208
Probe == 8

StreamRoom(h, n) == Len(out[h]) + n <= MaxStreamOutput
Target48 == Uint8Array(Filled(48, 170))

StreamUpdate ==
  \E h \in DOMAIN ctx :
    /\ Len(msg[h]) + 3 <= MaxStreamMessage
    /\ Update(h, Uint8Array(Ptn(Len(msg[h]), 3)))
StreamSqueeze ==
  \E h \in DOMAIN ctx : \E n \in {0, 64, ctx[h].rate} : StreamRoom(h, n) /\ Squeeze(h, Num(n))
StreamSqueezeHex == \E h \in DOMAIN ctx : StreamRoom(h, 32) /\ SqueezeHex(h, Num(32))
StreamSqueezeInto ==
  \E h \in DOMAIN ctx : \E length \in {undefined, Num(0)} :
    /\ StreamRoom(h, Asked(Target48, Num(8), length).count)
    /\ SqueezeInto(h, Target48, Num(8), length)

NextStream == StreamUpdate \/ StreamSqueeze \/ StreamSqueezeHex \/ StreamSqueezeInto

SpecStream == Init /\ [][NextStream]_vars

\* C2 (squeeze continuity): the bytes a context has returned, over all its
\* squeeze, squeezeInto and squeezeHex calls, are the bytes one squeeze of their
\* total length returns on a context seeded alike.
SqueezeContinuity ==
  \A h \in DOMAIN ctx :
    out[h] = squeeze(Bind(seed[h], thetaC, thetaD, chiRow), Num(Len(out[h]))).value.data

\* the output stood at exactly one block, and squeezeHex has gone on from there
ContinuedPastBlock ==
  \E h \in DOMAIN ctx :
    /\ call.handle = h /\ call.op = "squeezeHex" /\ call.throw = "none"
    /\ Len(out[h]) = ctx[h].rate + 32 /\ ctx[h].squeezeOffset = 32

\* a call that asked for no bytes: squeeze(0), or squeezeInto with length 0
ZeroLength(c) ==
  \/ c.op = "squeeze" /\ c.args[1] = Num(0)
  \/ c.op = "squeezeInto" /\ Asked(c.args[1], c.args[2], c.args[3]).count = 0

\* C5 (empty squeeze is a no-op): a zero-length squeeze returns no byte (a
\* zero-length squeezeInto returns its target as it was), and the bytes a later
\* squeeze returns are those it would have returned without the call.
EmptySqueezeIsNoOp ==
  [][\A h \in DOMAIN ctx :
       (call'.handle = h /\ call'.throw = "none" /\ call'.op \in {"squeeze", "squeezeInto"}
          /\ ZeroLength(call'))
       => /\ IF call'.op = "squeeze"
             THEN call'.value.data = << >>
             ELSE call'.value = call'.args[1]
          /\ out' = out
          /\ squeeze(Bind(ctx'[h], thetaC', thetaD', chiRow'), Num(Probe)).value
               = squeeze(Bind(ctx[h], thetaC, thetaD, chiRow), Num(Probe)).value]_vars

\* squeeze(0) on a finalized context whose current block is used up
EmptySqueezeAtBlockEnd ==
  \E h \in DOMAIN ctx :
    /\ call.handle = h /\ call.op = "squeeze" /\ call.throw = "none"
    /\ call.args = << Num(0) >>
    /\ ctx[h].finalized /\ ctx[h].squeezeOffset = ctx[h].rate

\* ============================================================= SpecArgs
\* One context of either variant, with a short message or none, whose squeeze
\* methods are called with arguments of every kind, good and bad.
MaxArgsMessage == 3
MaxArgsOutput == 24

Target16 == Uint8Array(Ptn(160, 16))
Array16 == ArrayLike(Ptn(160, 16))
\* -1, 0.5 and NaN, then lengths that are accepted
AnyLengths == {Num(-1), HalfOf(1), NaN, Num(0), Num(8)}
\* << target, offset, length >>: accepted ones, then one of each kind that is not
AnyIntoArgs ==
  { << Target16, undefined, undefined >>,
    << Target16, Num(4), undefined >>,
    << Target16, Num(4), Num(8) >>,
    << Target16, Num(16), undefined >>,
    << Array16, undefined, undefined >>,
    << Target16, Num(-1), undefined >>,
    << Target16, HalfOf(1), undefined >>,
    << Target16, Num(17), undefined >>,
    << Target16, Num(4), Num(13) >>,
    << Target16, Num(4), Num(-1) >>,
    << Target16, Num(4), HalfOf(1) >>,
    << Target16, Num(4), NaN >> }

\* the bytes the call would add to the output if it is accepted
Adds(n) == IF IsInteger(n) /\ LessEq(Num(0), n) THEN IntOf(n) ELSE 0
ArgsRoom(h, n) == Len(out[h]) + n <= MaxArgsOutput

ArgsUpdate ==
  \E h \in DOMAIN ctx :
    /\ Len(msg[h]) + 3 <= MaxArgsMessage
    /\ Update(h, Uint8Array(Ptn(Len(msg[h]), 3)))
ArgsSqueeze ==
  \E h \in DOMAIN ctx : \E n \in AnyLengths : ArgsRoom(h, Adds(n)) /\ Squeeze(h, n)
ArgsSqueezeHex ==
  \E h \in DOMAIN ctx : \E n \in AnyLengths : ArgsRoom(h, Adds(n)) /\ SqueezeHex(h, n)
ArgsSqueezeInto ==
  \E h \in DOMAIN ctx : \E a \in AnyIntoArgs :
    /\ ArgsRoom(h, Len(a[1].data))
    /\ SqueezeInto(h, a[1], a[2], a[3])

NextArgs == ArgsUpdate \/ ArgsSqueeze \/ ArgsSqueezeHex \/ ArgsSqueezeInto

SpecArgs == Init /\ [][NextArgs]_vars

\* C7 (a rejected squeeze changes nothing): when squeeze, squeezeHex or
\* squeezeInto throws for its arguments, the context, the scratch arrays and the
\* output are as before, nothing is written to the target, and a context that
\* was absorbing still is and takes a further update.
RejectedSqueezeChangesNothing ==
  [][\A h \in DOMAIN ctx :
       (call'.handle = h /\ call'.op \in SqueezeOps /\ call'.throw \in {"RangeError", "TypeError"})
       => /\ ctx' = ctx
          /\ UNCHANGED << thetaC, thetaD, chiRow, msg, out, seed >>
          /\ call'.op = "squeezeInto" => call'.value = call'.args[1]
          /\ ~ctx[h].finalized =>
               update(Bind(ctx'[h], thetaC', thetaD', chiRow'), Uint8Array(<< 1 >>)).throw = "none"]_vars

\* squeezeInto was refused for offset + length > target.length while the
\* context was absorbing a message
RejectedWhileAbsorbing ==
  \E h \in DOMAIN ctx :
    /\ call.handle = h /\ call.op = "squeezeInto" /\ call.throw = "RangeError"
    /\ call.args = << Target16, Num(4), Num(13) >>
    /\ ~ctx[h].finalized /\ Len(msg[h]) = 3

\* C9 (frame of squeezeInto): an accepted squeezeInto(target, offset, length)
\* returns the target with the next `length` bytes of the stream at offset ..
\* offset + length - 1 and every other byte as it was, and moves the stream on
\* by `length` bytes; an omitted length is target.length - offset, an omitted
\* offset is 0.
SqueezeIntoFrame ==
  [][\A h \in DOMAIN ctx :
       (call'.handle = h /\ call'.op = "squeezeInto" /\ call'.throw = "none")
       => LET target == call'.args[1]
              part   == Asked(target, call'.args[2], call'.args[3])
              before == Bind(ctx[h], thetaC, thetaD, chiRow)
              after  == Bind(ctx'[h], thetaC', thetaD', chiRow')
          IN \E stream \in {squeeze(before, Num(part.count + Probe)).value.data} :
               /\ call'.value.kind = "Uint8Array"
               /\ Len(call'.value.data) = Len(target.data)
               /\ \A i \in 1 .. Len(target.data) :
                    call'.value.data[i]
                      = IF i > part.first /\ i <= part.first + part.count
                        THEN stream[i - part.first]
                        ELSE target.data[i]
               /\ squeeze(after, Num(Probe)).value.data
                    = SubSeq(stream, part.count + 1, part.count + Probe)]_vars

\* squeezeInto(target, 4) has filled bytes 4 .. 15 of a 16-byte target from a
\* stream that an earlier call had begun
FilledFromOffset ==
  \E h \in DOMAIN ctx :
    /\ call.handle = h /\ call.op = "squeezeInto" /\ call.throw = "none"
    /\ call.args = << Target16, Num(4), undefined >>
    /\ Len(out[h]) = 20

\* ============================================================== SpecApi
\* The module is loaded and one entry point is called, with arguments of
\* every kind; a context that createTurboShake128/256 returns is squeezed once.
\* [fill, n, D, L, tail, hex]: the last `tail` bytes of the L-byte output for
\* the n-byte message of the given fill and separation byte D, in hexadecimal
Vectors128 ==
  { [fill |-> "empty", n |-> 0, D |-> 31, L |-> 32, tail |-> 32,
     hex |-> "1E415F1C5983AFF2169217277D17BB538CD945A397DDEC541F1CE41AF2C1B74C"],
    [fill |-> "empty", n |-> 0, D |-> 31, L |-> 64, tail |-> 64,
     hex |-> "1E415F1C5983AFF2169217277D17BB538CD945A397DDEC541F1CE41AF2C1B74C3E8CCAE2A4DAE56C84A04C2385C03C15E8193BDF58737363321691C05462C8DF"],
    [fill |-> "empty", n |-> 0, D |-> 31, L |-> 10032, tail |-> 32,
     hex |-> "A3B9B0385900CE761F22AED548E754DA10A5242D62E8C658E3F3A923A7555607"],
    [fill |-> "ptn", n |-> 1, D |-> 31, L |-> 32, tail |-> 32,
     hex |-> "55CEDD6F60AF7BB29A4042AE832EF3F58DB7299F893EBB9247247D856958DAA9"],
    [fill |-> "ptn", n |-> 17, D |-> 31, L |-> 32, tail |-> 32,
     hex |-> "9C97D036A3BAC819DB70EDE0CA554EC6E4C2A1A4FFBFD9EC269CA6A111161233"],
    [fill |-> "ptn", n |-> 289, D |-> 31, L |-> 32, tail |-> 32,
     hex |-> "96C77C279E0126F7FC07C9B07F5CDAE1E0BE60BDBE10620040E75D7223A624D2"],
    [fill |-> "ptn", n |-> 4913, D |-> 31, L |-> 32, tail |-> 32,
     hex |-> "D4976EB56BCF118520582B709F73E1D6853E001FDAF80E1B13E0D0599D5FB372"],
    [fill |-> "ptn", n |-> 83521, D |-> 31, L |-> 32, tail |-> 32,
     hex |-> "DA67C7039E98BF530CF7A37830C6664E14CBAB7F540F58403B1B82951318EE5C"],
    [fill |-> "ptn", n |-> 1419857, D |-> 31, L |-> 32, tail |-> 32,
     hex |-> "B97A906FBF83EF7C812517ABF3B2D0AEA0C4F60318CE11CF103925127F59EECD"],
    [fill |-> "ptn", n |-> 24137569, D |-> 31, L |-> 32, tail |-> 32,
     hex |-> "35CD494ADEDED2F25239AF09A7B8EF0C4D1CA4FE2D1AC370FA63216FE7B4C2B1"],
    [fill |-> "FF", n |-> 3, D |-> 1, L |-> 32, tail |-> 32,
     hex |-> "BF323F940494E88EE1C540FE660BE8A0C93F43D15EC006998462FA994EED5DAB"],
    [fill |-> "FF", n |-> 1, D |-> 6, L |-> 32, tail |-> 32,
     hex |-> "8EC9C66465ED0D4A6C35D13506718D687A25CB05C74CCA1E42501ABD83874A67"],
    [fill |-> "FF", n |-> 3, D |-> 7, L |-> 32, tail |-> 32,
     hex |-> "B658576001CAD9B1E5F399A9F77723BBA05458042D68206F7252682DBA3663ED"],
    [fill |-> "FF", n |-> 7, D |-> 11, L |-> 32, tail |-> 32,
     hex |-> "8DEEAA1AEC47CCEE569F659C21DFA8E112DB3CEE37B18178B2ACD805B799CC37"],
    [fill |-> "FF", n |-> 1, D |-> 48, L |-> 32, tail |-> 32,
     hex |-> "553122E2135E363C3292BED2C6421FA232BAB03DAA07C7D6636603286506325B"],
    [fill |-> "FF", n |-> 3, D |-> 127, L |-> 32, tail |-> 32,
     hex |-> "16274CC656D44CEFD422395D0F9053BDA6D28E122ABA15C765E5AD0E6EAF26F9"] }

Vectors256 ==
  { [fill |-> "empty", n |-> 0, D |-> 31, L |-> 64, tail |-> 64,
     hex |-> "367A329DAFEA871C7802EC67F905AE13C57695DC2C6663C61035F59A18F8E7DB11EDC0E12E91EA60EB6B32DF06DD7F002FBAFABB6E13EC1CC20D995547600DB0"],
    [fill |-> "empty", n |-> 0, D |-> 31, L |-> 10032, tail |-> 32,
     hex |-> "ABEFA11630C661269249742685EC082F207265DCCF2F43534E9C61BA0C9D1D75"],
    [fill |-> "ptn", n |-> 1, D |-> 31, L |-> 64, tail |-> 64,
     hex |-> "3E1712F928F8EAF1054632B2AA0A246ED8B0C378728F60BC970410155C28820E90CC90D8A3006AA2372C5C5EA176B0682BF22BAE7467AC94F74D43D39B0482E2"],
    [fill |-> "ptn", n |-> 17, D |-> 31, L |-> 64, tail |-> 64,
     hex |-> "B3BAB0300E6A191FBE6137939835923578794EA54843F5011090FA2F3780A9E5CB22C59D78B40A0FBFF9E672C0FBE0970BD2C845091C6044D687054DA5D8E9C7"],
    [fill |-> "ptn", n |-> 289, D |-> 31, L |-> 64, tail |-> 64,
     hex |-> "66B810DB8E90780424C0847372FDC95710882FDE31C6DF75BEB9D4CD9305CFCAE35E7B83E8B7E6EB4B78605880116316FE2C078A09B94AD7B8213C0A738B65C0"],
    [fill |-> "ptn", n |-> 4913, D |-> 31, L |-> 64, tail |-> 64,
     hex |-> "C74EBC919A5B3B0DD1228185BA02D29EF442D69D3D4276A93EFE0BF9A16A7DC0CD4EABADAB8CD7A5EDD96695F5D360ABE09E2C6511A3EC397DA3B76B9E1674FB"],
    [fill |-> "ptn", n |-> 83521, D |-> 31, L |-> 64, tail |-> 64,
     hex |-> "02CC3A8897E6F4F6CCB6FD46631B1F5207B66C6DE9C7B55B2D1A23134A170AFDAC234EABA9A77CFF88C1F020B73724618C5687B362C430B248CD38647F848A1D"],
    [fill |-> "ptn", n |-> 1419857, D |-> 31, L |-> 64, tail |-> 64,
     hex |-> "ADD53B06543E584B5823F626996AEE50FE45ED15F20243A7165485ACB4AA76B4FFDA75CEDF6D8CDC95C332BD56F4B986B58BB17D1778BFC1B1A97545CDF4EC9F"],
    [fill |-> "ptn", n |-> 24137569, D |-> 31, L |-> 64, tail |-> 64,
     hex |-> "9E11BC59C24E73993C1484EC66358EF71DB74AEFD84E123F7800BA9C4853E02CFE701D9E6BB765A304F0DC34A4EE3BA82C410F0DA70E86BFBD90EA877C2D6104"],
    [fill |-> "FF", n |-> 3, D |-> 1, L |-> 64, tail |-> 64,
     hex |-> "D21C6FBBF587FA2282F29AEA620175FB0257413AF78A0B1B2A87419CE031D933AE7A4D383327A8A17641A34F8A1D1003AD7DA6B72DBA84BB62FEF28F62F12424"],
    [fill |-> "FF", n |-> 1, D |-> 6, L |-> 64, tail |-> 64,
     hex |-> "738D7B4E37D18B7F22AD1B5313E357E3DD7D07056A26A303C433FA3533455280F4F5A7D4F700EFB437FE6D281405E07BE32A0A972E22E63ADC1B090DAEFE004B"],
    [fill |-> "FF", n |-> 3, D |-> 7, L |-> 64, tail |-> 64,
     hex |-> "18B3B5B7061C2E67C1753A00E6AD7ED7BA1C906CF93EFB7092EAF27FBEEBB755AE6E292493C110E48D260028492B8E09B5500612B8F2578985DED5357D00EC67"],
    [fill |-> "FF", n |-> 7, D |-> 11, L |-> 64, tail |-> 64,
     hex |-> "BB36764951EC97E9D85F7EE9A67A7718FC005CF42556BE79CE12C0BDE50E5736D6632B0D0DFB202D1BBB8FFE3DD74CB00834FA756CB03471BAB13A1E2C16B3C0"],
    [fill |-> "FF", n |-> 1, D |-> 48, L |-> 64, tail |-> 64,
     hex |-> "F3FE12873D34BCBB2E608779D6B70E7F86BEC7E90BF113CBD4FDD0C4E2F4625E148DD7EE1A52776CF77F240514D9CCFC3B5DDAB8EE255E39EE389072962C111A"],
    [fill |-> "FF", n |-> 3, D |-> 127, L |-> 64, tail |-> 64,
     hex |-> "ABE569C1F77EC340F02705E7D37C9AB7E155516E4A6A150021D70B6FAC0BB40C069F9A9828A0D575CD99F9BAE435AB1ACF7ED9110BA97CE0388D074BAC768776"] }

MaxVectorMessage == 4913
MaxVectorOutput == 10032

\* the vectors of a table that the bounds admit
Admitted(table) == {v \in table : v.n <= MaxVectorMessage /\ v.L <= MaxVectorOutput}
\* the message of a vector
Message(v) == Uint8Array(IF v.fill = "FF" THEN Filled(v.n, 255) ELSE Ptn(0, v.n))
VectorArgs(v) == << Message(v), Num(v.D), Num(v.L) >>

ApiBytes == {Num(-1), HalfOf(1), NaN, Num(256), Num(0), Num(31), Num(255)}
ApiLengths == {Num(-1), HalfOf(1), NaN, Num(0), Num(32), Num(64)}
ApiMessages == {Uint8Array(<< >>), ArrayLike(<< 511, -1, 255 >>)}
\* new TextEncoder().encode('Hello, world!'): the UTF-8 bytes of the string
HelloWorld == << 72, 101, 108, 108, 111, 44, 32, 119, 111, 114, 108, 100, 33 >>
\* the arguments of the README's examples
ReadmeArgs == << Uint8Array(HelloWorld), Num(31), Num(32) >>
\* the arguments << message, separationByte, outputLength >> of the one-shot calls
ApiArgs(table) ==
  {VectorArgs(v) : v \in Admitted(table)}
    \cup {<< M, D, L >> : M \in ApiMessages, D \in ApiBytes, L \in ApiLengths}
    \cup {ReadmeArgs}

InitApi == Start(<< >>)

\* what a one-shot call leaves behind; r is its result
OneShot(op, args, r) ==
  /\ thetaC' = r.this.thetaC
  /\ thetaD' = r.this.thetaD
  /\ chiRow' = r.this.chiRow
  /\ call' = [op |-> op, handle |-> 0, args |-> args, throw |-> r.throw, value |-> r.value]
  /\ UNCHANGED << ctx, msg, out, seed, work, pos >>

\* what createTurboShake128/256 leaves behind; made is the constructor's result
Create(op, args, made) ==
  /\ call' = [op |-> op, handle |-> IF made.throw = "none" THEN Len(ctx) + 1 ELSE 0,
              args |-> args, throw |-> made.throw, value |-> << >>]
  /\ IF made.throw = "none"
     THEN /\ ctx' = Append(ctx, made.value)
          /\ seed' = Append(seed, made.value)
          /\ msg' = Append(msg, << >>)
          /\ out' = Append(out, << >>)
          /\ work' = Append(work, NoTrace)
     ELSE UNCHANGED << ctx, seed, msg, out, work >>
  /\ UNCHANGED << thetaC, thetaD, chiRow, pos >>

Fresh == call = Loaded
Creates == {"createTurboShake128", "createTurboShake256"}
Created == call.op \in Creates /\ call.throw = "none"

ApiTurboshake128 ==
  /\ Fresh
  /\ \E a \in ApiArgs(Vectors128) : \E r \in {turboshake128(Scratch, a[1], a[2], a[3])} :
       OneShot("turboshake128", a, r)
ApiTurboshake256 ==
  /\ Fresh
  /\ \E a \in ApiArgs(Vectors256) : \E r \in {turboshake256(Scratch, a[1], a[2], a[3])} :
       OneShot("turboshake256", a, r)
ApiTurboshake128Hex ==
  /\ Fresh
  /\ \E a \in ApiArgs(Vectors128) : \E r \in {turboshake128Hex(Scratch, a[1], a[2], a[3])} :
       OneShot("turboshake128Hex", a, r)
ApiTurboshake256Hex ==
  /\ Fresh
  /\ \E a \in ApiArgs(Vectors256) : \E r \in {turboshake256Hex(Scratch, a[1], a[2], a[3])} :
       OneShot("turboshake256Hex", a, r)
ApiCreate128 ==
  /\ Fresh
  /\ \E D \in ApiBytes : \E made \in {createTurboShake128(D)} :
       Create("createTurboShake128", << D >>, made)
ApiCreate256 ==
  /\ Fresh
  /\ \E D \in ApiBytes : \E made \in {createTurboShake256(D)} :
       Create("createTurboShake256", << D >>, made)
\* rate arguments of every kind, among them the state size in bytes and more
ApiRates ==
  {Num(-1), Num(0), HalfOf(1), NaN, Num(1), Num(136), Num(168), Num(199), Num(200), Num(256)}
\* new TurboShake(rate, separationByte)
ApiNew ==
  /\ Fresh
  /\ \E rate \in ApiRates : \E D \in ApiBytes : \E made \in {constructor(rate, D)} :
       Create("TurboShake", << rate, D >>, made)
ApiSqueeze == Created /\ \E L \in ApiLengths : Squeeze(call.handle, L)
ApiSqueezeHex == Created /\ \E L \in ApiLengths : SqueezeHex(call.handle, L)

NextApi ==
  \/ ApiTurboshake128 \/ ApiTurboshake256 \/ ApiTurboshake128Hex \/ ApiTurboshake256Hex
  \/ ApiCreate128 \/ ApiCreate256 \/ ApiNew \/ ApiSqueeze \/ ApiSqueezeHex

SpecApi == InitApi /\ [][NextApi]_vars

OneShots == {"turboshake128", "turboshake256", "turboshake128Hex", "turboshake256Hex"}
HexOps == {"turboshake128Hex", "turboshake256Hex", "squeezeHex"}
\* an integer in [0, 255]
ByteArgument(D) == D.kind = "number" /\ D.twice % 2 = 0 /\ 0 <= D.twice /\ D.twice <= 510
\* an integer that is at least 0
LengthArgument(L) == L.kind = "number" /\ L.twice % 2 = 0 /\ 0 <= L.twice
\* the number of bytes that the value of the last call stands for
Returns(L) ==
  IF call.op \in HexOps THEN Len(call.value) = 2 * (L.twice \div 2)
  ELSE Len(call.value.data) = L.twice \div 2

\* C8 (argument validation of the entry points): createTurboShake128/256 and
\* the one-shot functions throw a RangeError when D is not an integer in
\* [0, 255]; the one-shot functions, squeeze and squeezeHex throw one when L is
\* negative or not an integer; with an integer D in [0, 255] and an integer
\* L >= 0 they succeed and return L bytes, 2L characters for the hex variants.
EntryPointsValidate ==
  /\ call.op \in Creates
       => call.throw = IF ByteArgument(call.args[1]) THEN "none" ELSE "RangeError"
  /\ call.op \in OneShots
       => IF ByteArgument(call.args[2]) /\ LengthArgument(call.args[3])
          THEN call.throw = "none" /\ Returns(call.args[3])
          ELSE call.throw = "RangeError"
  /\ call.op \in {"squeeze", "squeezeHex"}
       => IF LengthArgument(call.args[1])
          THEN call.throw = "none" /\ Returns(call.args[1])
          ELSE call.throw = "RangeError"

\* turboshake256Hex was called with a separation byte of 256 and a good length
ByteOutOfRangeRejected ==
  /\ call.op = "turboshake256Hex" /\ call.throw = "RangeError"
  /\ call.args[2] = Num(256) /\ call.args[3] = Num(32)

\* the last `tail` bytes that the last call returned, in hexadecimal
TailText(tail) ==
  IF call.op \in HexOps
  THEN Text(SubSeq(call.value, Len(call.value) - 2 * tail + 1, Len(call.value)))
  ELSE Text(bytesToHex(SubSeq(call.value.data, Len(call.value.data) - tail + 1,
                              Len(call.value.data))))
Reproduces(ops, table) ==
  \A v \in Admitted(table) :
    (call.op \in ops /\ call.args = VectorArgs(v))
    => call.throw = "none" /\ TailText(v.tail) = v.hex

\* C10 (published test vectors): turboshake128 and turboshake256, and their hex
\* variants, return for the message, separation byte and length of each vector
\* of the tests the bytes that the vector gives.
PublishedVectors ==
  /\ Reproduces({"turboshake128", "turboshake128Hex"}, Vectors128)
  /\ Reproduces({"turboshake256", "turboshake256Hex"}, Vectors256)

\* turboshake256(FF, 0x06, 64) has returned
Vector256Returned ==
  /\ call.op = "turboshake256" /\ call.throw = "none"
  /\ call.args = << Uint8Array(<< 255 >>), Num(6), Num(64) >>

\* ============================================================== SpecTwo
\* Two contexts of the same variant and separation byte, created one after the
\* other; their method calls interleave in every order.
MaxTwoMessage == 2
MaxTwoOutput == 32

InitTwo == \E made \in Variants : Start(<< made.value, made.value >>)

TwoChunks(h) ==
  {Uint8Array(Ptn(Len(msg[h]), n)) : n \in {k \in {0, 2} : Len(msg[h]) + k <= MaxTwoMessage}}
TwoRoom(h, n) == Len(out[h]) + n <= MaxTwoOutput

TwoUpdate == \E h \in DOMAIN ctx : \E message \in TwoChunks(h) : Update(h, message)
TwoSqueeze ==
  \E h \in DOMAIN ctx : \E n \in {0, 16} : TwoRoom(h, n) /\ Squeeze(h, Num(n))
TwoSqueezeHex == \E h \in DOMAIN ctx : TwoRoom(h, 16) /\ SqueezeHex(h, Num(16))

NextTwo == TwoUpdate \/ TwoSqueeze \/ TwoSqueezeHex

SpecTwo == InitTwo /\ [][NextTwo]_vars

\* the output of each context is that of its own message alone, computed with
\* fresh scratch arrays, and equal inputs have given equal outputs
Deterministic ==
  /\ \A h \in DOMAIN ctx :
       Len(out[h]) > 0
       => out[h] = turboshake([thetaC |-> ZeroRow, thetaD |-> ZeroRow, chiRow |-> ZeroRow],
                              Num(ctx[h].rate), Uint8Array(msg[h]),
                              Num(ctx[h].separationByte), Num(Len(out[h]))).value.data
  /\ \A g, h \in DOMAIN ctx :
       (msg[g] = msg[h] /\ Len(out[g]) = Len(out[h])) => out[g] = out[h]
\* a call on one context leaves every other context as it was
OthersUntouched ==
  \A h \in DOMAIN ctx :
    call'.handle # h => ctx'[h] = ctx[h] /\ msg'[h] = msg[h] /\ out'[h] = out[h]

\* C6 (determinism and context isolation): under every interleaving of the
\* calls on two contexts of the same rate and separation byte, each context's
\* output is the one its own message gives with fresh scratch arrays, so equal
\* messages and lengths give equal bytes; and no call on one context changes
\* the fields, the message or the output of the other.
ContextsIsolated == []Deterministic /\ [][OthersUntouched]_vars

\* both contexts absorbed the same two bytes; the second context's first
\* squeeze returns after the first context has squeezed twice
SqueezedAfterTheOther ==
  /\ call.handle = 2 /\ call.op = "squeeze" /\ call.throw = "none"
  /\ Len(call.value.data) = 16 /\ out[2] = call.value.data
  /\ Len(out[1]) = 32
  /\ msg[1] = msg[2] /\ Len(msg[2]) = 2

\* =========================================================== SpecDomain
\* Two contexts of the same variant with different separation bytes; each
\* absorbs FF bytes and is squeezed once.
MaxDomainMessage == 3
MaxDomainOutput == 32

\* pairs of separation bytes: bytes of the test vectors, and 0x02 with 0x0B
DomainPairs == {<< 1, 7 >>, << 2, 11 >>, << 6, 48 >>, << 31, 127 >>}

InitDomain ==
  \E pair \in DomainPairs :
    \/ Start(<< createTurboShake128(Num(pair[1])).value,
                createTurboShake128(Num(pair[2])).value >>)
    \/ Start(<< createTurboShake256(Num(pair[1])).value,
                createTurboShake256(Num(pair[2])).value >>)

DomainUpdate ==
  \E h \in DOMAIN ctx : \E n \in {3} :
    /\ Len(msg[h]) + n <= MaxDomainMessage
    /\ Update(h, Uint8Array(Filled(n, 255)))
DomainSqueeze ==
  \E h \in DOMAIN ctx : \E n \in {0, 1, 32} :
    /\ Len(out[h]) = 0 /\ n <= MaxDomainOutput
    /\ Squeeze(h, Num(n))

NextDomain == DomainUpdate \/ DomainSqueeze

SpecDomain == InitDomain /\ [][NextDomain]_vars

\* two contexts that absorbed the same message and were asked for L bytes each
SameRequest(g, h, L) ==
  /\ g # h /\ msg[g] = msg[h]
  /\ ctx[g].finalized = ctx[h].finalized
  /\ Len(out[g]) = L /\ Len(out[h]) = L

StaysFinalized == \A h \in DOMAIN ctx : ctx[h].finalized => ctx'[h].finalized
\* the padding has been applied once to a finalized context, and never to another
PaddedOnce == \A h \in DOMAIN ctx : work[h].pads = IF ctx[h].finalized THEN 1 ELSE 0

\* C17 (one-way, idempotent finalization): no call makes finalized false again,
\* and in the lifetime of a context the padding (the separation byte and 0x80
\* XORed in, then one permutation) is applied exactly once, by the call that
\* finalizes it, however many squeezes and refused updates follow.
FinalizedOnce == []PaddedOnce /\ [][StaysFinalized]_vars

\* a finalized context was squeezed twice and then refused an update
UpdateRefusedAfterTwoSqueezes ==
  \E h \in DOMAIN ctx :
    /\ ctx[h].finalized
    /\ Len(out[h]) = 64
    /\ call.op = "update" /\ call.throw = "Error"
    /\ work[h].pads = 1

\* the last n bytes of a sequence
Last(seq, n) == SubSeq(seq, Len(seq) - n + 1, Len(seq))

\* C15 (buffer-length invariant): between calls on a context that is not
\* finalized and has absorbed N bytes, 0 <= bufferLength < rate, bufferLength =
\* N mod rate, and buffer[0 .. bufferLength) holds the last N mod rate bytes of
\* the message; so finalization never takes its "Internal buffer is full"
\* branch, and appending the separation byte stays inside the buffer.
BufferHoldsTail ==
  /\ \A h \in DOMAIN ctx :
       ~ctx[h].finalized =>
         /\ 0 <= ctx[h].bufferLength
         /\ ctx[h].bufferLength < ctx[h].rate
         /\ ctx[h].bufferLength = Len(msg[h]) % ctx[h].rate
         /\ SubSeq(ctx[h].buffer, 1, ctx[h].bufferLength)
              = Last(msg[h], Len(msg[h]) % ctx[h].rate)
         /\ ensureFinalized(This(h)).throw = "none"
         /\ ctx[h].bufferLength + 1 <= Len(ctx[h].buffer)
         /\ Len(Padded(This(h)).buffer) = ctx[h].rate
  /\ call.op \in SqueezeOps => call.throw # "Error"

\* an update has left rate - 1 bytes in the buffer after a block was absorbed
BufferOneShortOfFull ==
  \E h \in DOMAIN ctx :
    /\ call.op = "update" /\ call.throw = "none"
    /\ ~ctx[h].finalized
    /\ Len(msg[h]) > ctx[h].rate
    /\ ctx[h].bufferLength = ctx[h].rate - 1

\* ============================================================ SpecSponge
\* One context of either variant: messages of up to two blocks, in chunks that
\* end one byte before and one byte after a block's end, and output of up to
\* two blocks, in calls that stop one byte before a block's end, at its end,
\* and past it.
MaxSpongeMessage == 337
MaxSpongeOutput == 336

SpongeLengths(rate) == {rate - 1, rate + 1}

SpongeUpdate ==
  \E h \in DOMAIN ctx : \E n \in SpongeLengths(ctx[h].rate) :
    /\ Len(msg[h]) + n <= MaxSpongeMessage
    /\ Update(h, Uint8Array(Ptn(Len(msg[h]), n)))
SpongeSqueeze ==
  \E h \in DOMAIN ctx : \E n \in {0, ctx[h].rate - 1, ctx[h].rate} :
    /\ Len(out[h]) + n <= MaxSpongeOutput
    /\ Squeeze(h, Num(n))
SpongeSqueezeInto ==
  \E h \in DOMAIN ctx : \E n \in {ctx[h].rate} :
    /\ Len(out[h]) + n <= MaxSpongeOutput
    /\ SqueezeInto(h, Uint8Array(Filled(n + 2, 170)), Num(2), undefined)

NextSponge == SpongeUpdate \/ SpongeSqueeze \/ SpongeSqueezeInto

SpecSponge == Init /\ [][NextSponge]_vars

\* ------------------------------------------------ the reference sponge
\* The sponge of the specification, on a state of 200 bytes: byte i of the
\* state is bits 8 * (i mod 8) .. 8 * (i mod 8) + 7 of lane i div 8.
XorByte(a, b) == ByteOf(Xor(BigInt(a), BigInt(b)))
\* the state with the given bytes XORed in from position at
XorAt(bytes, block, at) ==
  For(0, Len(block), bytes,
      LAMBDA i, t : [t EXCEPT ![at + i + 1] = XorByte(@, block[i + 1])])
\* the lanes of a state given as bytes, and the bytes of a state given as lanes
LanesOf(bytes) ==
  For(0, 8 * STATE_SIZE, ZeroState,
      LAMBDA i, t : [t EXCEPT ![i \div 8] = Or(@, ShiftLeft(BigInt(bytes[i + 1]), (i % 8) * 8))])
BytesOf(lanes) ==
  For(0, 8 * STATE_SIZE, Zeros(8 * STATE_SIZE),
      LAMBDA i, t : [t EXCEPT ![i + 1] = ByteOf(ShiftRight(lanes[i \div 8], (i % 8) * 8))])
\* the permutation f, on bytes
Permute(bytes) ==
  Then(LanesOf(bytes), LAMBDA lanes :
    Then(keccakP1600_12rounds([state  |-> lanes,
                               thetaC |-> ZeroRow,
                               thetaD |-> ZeroRow,
                               chiRow |-> ZeroRow,
                               trace  |-> NoTrace]),
         LAMBDA p : BytesOf(p.state)))
\* the state after the floor(N / r) full blocks of M are absorbed
RefBlocks(r, M) ==
  For(0, Len(M) \div r, Zeros(8 * STATE_SIZE),
      LAMBDA k, t : Then(XorAt(t, SubSeq(M, k * r + 1, k * r + r), 0), Permute))
\* the state after the rest of M, D and 0x80 are absorbed
RefFinal(r, D, M) ==
  Then(RefBlocks(r, M), LAMBDA t :
    Then(XorAt(XorAt(t, Append(SubSeq(M, (Len(M) \div r) * r + 1, Len(M)), D), 0),
               << 128 >>, r - 1),
         Permute))
\* the first T bytes of the output: w is [state, stream]
RefStream(r, D, M, T) ==
  Then(RefFinal(r, D, M), LAMBDA final :
    For(0, (T + r - 1) \div r, [state |-> final, stream |-> << >>],
        LAMBDA k, w :
          Then(IF k = 0 THEN w.state ELSE Permute(w.state), LAMBDA t :
            [state  |-> t,
             stream |-> w.stream \o SubSeq(t, 1, Min(r, T - k * r))])).stream)

\* C13 (reference sponge): whatever the rate, the separation byte, the message
\* and the sequence of update and squeeze calls, the bytes a context has
\* returned are the first bytes of the output of the reference sponge on the
\* whole message it absorbed.
MatchesReferenceSponge ==
  \A h \in DOMAIN ctx :
    Len(out[h]) > 0 =>
      out[h] = RefStream(ctx[h].rate, ctx[h].separationByte, msg[h], Len(out[h]))

\* a message of more than one block was absorbed in chunks and more than one
\* block of output was squeezed in several calls, the last one starting
\* inside a block and ending in the next
SeveralBlocksInAndOut ==
  \E h \in DOMAIN ctx :
    /\ Len(msg[h]) > ctx[h].rate
    /\ Len(msg[h]) % ctx[h].rate = ctx[h].rate - 2
    /\ Len(out[h]) = 2 * ctx[h].rate - 1
    /\ call.op \in SqueezeOps /\ call.throw = "none"

\* ------------------------------------------------ claims under SpecSponge
\* byte i of a state given as lanes
StateByte(state, i) == ByteOf(ShiftRight(state[i \div 8], (i % 8) * 8))
\* the context of handle h as finalization finds it: as its last update left it
Unpadded(h) == Bind(seed[h], thetaC, thetaD, chiRow)
\* what separates byte i of two states
Delta(before, after, i) == XorByte(StateByte(before, i), StateByte(after, i))

\* C14 (padding at block edge): finalization that starts with bufferLength =
\* rate - 1 changes state byte rate - 1 by D xor 0x80 and no other byte by
\* padding; with bufferLength < rate - 1 it changes byte bufferLength by D and
\* byte rate - 1 by 0x80, and leaves the bytes of the rate strictly between
\* them as they were. The bytes below bufferLength change by the buffered
\* message bytes, the bytes from rate on not at all, and the state squeezed
\* from is the permutation of the state so padded.
PaddingAtBlockEdge ==
  \A h \in DOMAIN ctx :
    \E padded \in {Padded(Unpadded(h))} :
      LET r == seed[h].rate
          k == seed[h].bufferLength
          D == seed[h].separationByte
          PadDelta(i) == Delta(seed[h].state, padded.state, i)
      IN /\ ~seed[h].finalized
         /\ \A i \in 0 .. k - 1 : PadDelta(i) = seed[h].buffer[i + 1]
         /\ IF k = r - 1
            THEN PadDelta(r - 1) = XorByte(D, 128)
            ELSE /\ k < r - 1
                 /\ PadDelta(k) = D
                 /\ PadDelta(r - 1) = 128
                 /\ \A i \in k + 1 .. r - 2 : PadDelta(i) = 0
         /\ \A i \in r .. 8 * STATE_SIZE - 1 : PadDelta(i) = 0
         /\ (ctx[h].finalized /\ Len(out[h]) <= r)
              => ctx[h].state = keccakP1600_12rounds(padded).state

\* a context whose buffer held rate - 1 bytes was finalized by a squeeze
FinalizedAtBlockEdge ==
  \E h \in DOMAIN ctx :
    /\ ctx[h].finalized
    /\ seed[h].bufferLength = seed[h].rate - 1
    /\ call.op \in SqueezeOps /\ call.throw = "none"
    /\ Len(out[h]) > 0

\* the squeezing phase: nothing is buffered, and the cursor is where the bytes
\* returned so far put it
SqueezingPhase ==
  \A h \in DOMAIN ctx :
    ctx[h].finalized =>
      /\ ctx[h].bufferLength = 0
      /\ ctx[h].buffer = Zeros(ctx[h].rate)
      /\ 0 <= ctx[h].squeezeOffset
      /\ ctx[h].squeezeOffset <= ctx[h].rate
      /\ ctx[h].squeezeOffset
           = IF Len(out[h]) = 0 THEN 0 ELSE ((Len(out[h]) - 1) % ctx[h].rate) + 1
      /\ ctx[h].squeezeOffset = ctx[h].rate
           => (Len(out[h]) > 0 /\ Len(out[h]) % ctx[h].rate = 0)
\* a squeeze of n bytes on a finalized context with its cursor at c applies the
\* permutation once for each time the cursor stands at rate with a byte still
\* to produce: not at all when n = 0 or c + n <= rate
PermutesAtBlockEnd ==
  \A h \in DOMAIN ctx :
    (ctx[h].finalized /\ call'.handle = h /\ call'.op \in SqueezeOps /\ call'.throw = "none")
    => LET n == Len(out'[h]) - Len(out[h])
           c == ctx[h].squeezeOffset
       IN /\ work'[h].permutations - work[h].permutations
               = IF n = 0 THEN 0 ELSE (c + n - 1) \div ctx[h].rate
          /\ (work'[h].permutations > work[h].permutations)
               => (n > 0 /\ c + n > ctx[h].rate)
          /\ work'[h].pads = work[h].pads

\* C16 (squeezing-phase invariant): once finalized, bufferLength = 0, the buffer
\* is all zero and the cursor is in [0, rate]; the cursor is at rate only when
\* the whole current block has been read; and a squeeze applies the
\* permutation only when the cursor is at rate and a byte is still requested.
SqueezingPhaseInvariant == []SqueezingPhase /\ [][PermutesAtBlockEnd]_vars

\* two whole blocks have been read, the second after a permutation made with
\* the cursor at rate
SecondBlockReadToEnd ==
  \E h \in DOMAIN ctx :
    /\ ctx[h].finalized
    /\ ctx[h].squeezeOffset = ctx[h].rate
    /\ Len(out[h]) = 2 * ctx[h].rate
    /\ work[h].permutations = (Len(msg[h]) \div ctx[h].rate) + 2

\* C18 (capacity never touched directly): for rate 168 and rate 136, no
\* message, separation or padding byte is XORed into a state
\* position >= rate and no output byte is read from a position >= rate; a
\* block of rate bytes XORed in changes every byte below rate and no byte from
\* rate to 199, so those bytes change only through the permutation.
CapacityUntouched ==
  \A h \in DOMAIN ctx :
    /\ ctx[h].rate < 8 * STATE_SIZE
    /\ work[h].xorHigh <= ctx[h].rate
    /\ work[h].readHigh <= ctx[h].rate
    /\ \E full \in {xorBlock(This(h), Filled(ctx[h].rate, 255))} :
         /\ \A i \in 0 .. ctx[h].rate - 1 : Delta(ctx[h].state, full.state, i) = 255
         /\ \A i \in ctx[h].rate .. 8 * STATE_SIZE - 1 : Delta(ctx[h].state, full.state, i) = 0
    /\ \E padded \in {Padded(Unpadded(h))} :
         \A i \in ctx[h].rate .. 8 * STATE_SIZE - 1 : Delta(seed[h].state, padded.state, i) = 0

\* a standard variant absorbed whole blocks, was padded in the last byte of
\* the rate and had whole blocks read
RateUsedToItsEnd ==
  \E h \in DOMAIN ctx :
    /\ ctx[h].rate \in {168, 136}
    /\ Len(msg[h]) = 2 * ctx[h].rate
    /\ Len(out[h]) = 2 * ctx[h].rate
    /\ work[h].xorHigh = ctx[h].rate
    /\ work[h].readHigh = ctx[h].rate

\* C20 (termination and work): every update and squeeze returns; no iteration
\* of squeezeInto's loop produces nothing; a context that absorbed N bytes has
\* applied the permutation floor(N / rate) times, finalization applies it once
\* more, and T > 0 bytes of output take ceil(T / rate) - 1 further
\* applications, however the message and the output were split into calls.
WorkDone ==
  \A h \in DOMAIN ctx :
    LET r == ctx[h].rate
        N == Len(msg[h])
        T == Len(out[h])
    IN /\ work[h].permutations
            = (N \div r)
              + (IF ctx[h].finalized THEN 1 ELSE 0)
              + (IF T > 0 THEN ((T + r - 1) \div r) - 1 ELSE 0)
       /\ work[h].idle = 0
       /\ T > 0 => ctx[h].finalized
       /\ call.throw \in {"none", "Error"}

\* one block and most of another were absorbed and two blocks of output read:
\* one permutation for the message, one for finalization, one for the output
ThreePermutations ==
  \E h \in DOMAIN ctx :
    /\ Len(msg[h]) = 2 * ctx[h].rate - 2
    /\ Len(out[h]) = 2 * ctx[h].rate
    /\ work[h].permutations = 3

\* ----------------------------------------------- more claims under SpecApi
\* C19 (rate bound): every context constructed through the public API has a
\* rate that is a positive integer strictly less than 200, and the constructor
\* rejects any other rate.
RateBelowStateSize ==
  /\ \A h \in DOMAIN ctx : 0 < ctx[h].rate /\ ctx[h].rate < 8 * STATE_SIZE
  /\ (/\ call.op = "TurboShake"
      /\ ~(/\ IsInteger(call.args[1])
           /\ Less(Num(0), call.args[1])
           /\ Less(call.args[1], Num(8 * STATE_SIZE))))
       => call.throw = "RangeError"

\* ============================================================ SpecRounds
\* One context of either variant absorbs a short message and is finalized;
\* the permutation that finalization calls runs one step at a time, on the
\* object's state and the module's scratch arrays, as the source's loops do.
MaxRoundsMessage == 3

RoundsUpdate ==
  /\ pos.step = "idle"
  /\ \E h \in DOMAIN ctx :
       /\ Len(msg[h]) + 3 <= MaxRoundsMessage
       /\ Update(h, Uint8Array(Filled(3, 255)))

\* what a step of the permutation on handle h leaves behind: p is `this` after
\* the step, position the locals
Stepped(h, p, position) ==
  /\ ctx' = [ctx EXCEPT ![h] = Fields(p)]
  /\ thetaC' = p.thetaC
  /\ thetaD' = p.thetaD
  /\ chiRow' = p.chiRow
  /\ pos' = position
  /\ UNCHANGED << msg, out, seed, call, work >>

\* ensureFinalized up to its call of keccakP1600_12rounds, and the loop's
\* let roundIndex = 24 - 12
RoundsEnter ==
  /\ pos.step = "idle"
  /\ \E h \in DOMAIN ctx :
       /\ ~ctx[h].finalized
       /\ ctx[h].bufferLength < ctx[h].rate
       /\ Stepped(h, Padded(This(h)), [Idle EXCEPT !.step = "theta", !.roundIndex = 24 - 12])

\* the three theta loops, then let current = state[1]; let x = 1; let y = 0
StepTheta ==
  /\ pos.step = "theta"
  /\ \E h \in DOMAIN ctx : \E p \in {Theta(This(h))} :
       Stepped(h, p, [pos EXCEPT !.step = "rhoPi", !.t = 0, !.current = p.state[1],
                                !.x = 1, !.y = 0, !.entered = p.state])

\* one iteration of the rho/pi loop, t++ included
StepRhoPi ==
  /\ pos.step = "rhoPi"
  /\ pos.t < 24
  /\ \E h \in DOMAIN ctx :
       \E w \in {RhoPiBody(pos.t, [p |-> This(h), current |-> pos.current,
                                  x |-> pos.x, y |-> pos.y])} :
         Stepped(h, w.p, [pos EXCEPT !.t = @ + 1, !.current = w.current,
                                    !.x = w.x, !.y = w.y,
                                    !.step = IF pos.t + 1 < 24 THEN "rhoPi" ELSE "chi"])

StepChi ==
  /\ pos.step = "chi"
  /\ \E h \in DOMAIN ctx : Stepped(h, Chi(This(h)), [pos EXCEPT !.step = "iota"])

\* the iota step, roundIndex++ included
StepIota ==
  /\ pos.step = "iota"
  /\ \E h \in DOMAIN ctx :
       Stepped(h, Iota(pos.roundIndex, This(h)),
               [pos EXCEPT !.roundIndex = @ + 1,
                          !.step = IF pos.roundIndex + 1 < 24 THEN "theta" ELSE "return"])

\* keccakP1600_12rounds has returned: the rest of ensureFinalized
RoundsLeave ==
  /\ pos.step = "return"
  /\ \E h \in DOMAIN ctx :
       Stepped(h, [This(h) EXCEPT !.buffer = Zeros(ctx[h].rate),
                                  !.bufferLength = 0,
                                  !.finalized = TRUE,
                                  !.squeezeOffset = 0],
               Idle)

NextRounds ==
  RoundsUpdate \/ RoundsEnter \/ StepTheta \/ StepRhoPi \/ StepChi \/ StepIota \/ RoundsLeave

SpecRounds == Init /\ [][NextRounds]_vars

\* ------------------------------------------------ claims under SpecRounds
\* The standard round constants of Keccak-f[1600], from their definition: the
\* register of the linear feedback shift register x^8 + x^6 + x^5 + x^4 + 1
\* after n steps, starting from 1 ...
Lfsr(n) ==
  For(0, n, 1, LAMBDA k, v : IF v >= 128 THEN XorByte((2 * v) % 256, 113) ELSE 2 * v)
\* ... and RC[i], whose bit 2^j - 1 is the low bit of the register after 7i + j steps
StandardRC(i) == {(2 ^ j) - 1 : j \in {k \in 0 .. 6 : Lfsr(7 * i + k) % 2 = 1}}

\* where the permutation stands: in a round 12 .. 23, or past round 23 and returning
InSchedule ==
  pos.step # "idle" =>
    /\ pos.roundIndex \in 12 .. 24
    /\ pos.step = "return" <=> pos.roundIndex = 24
    /\ pos.step \in {"theta", "rhoPi", "chi", "iota", "return"}
\* the permutation run step by step leaves what keccakP1600_12rounds computes
StepsMakePermutation ==
  \A h \in DOMAIN ctx :
    (ctx[h].finalized \/ pos.step = "return")
      => ctx[h].state = keccakP1600_12rounds(Padded(Unpadded(h))).state
\* one step of the permutation follows the schedule
ScheduledStep ==
  /\ (pos.step = "idle" /\ pos'.step # "idle") => (pos'.step = "theta" /\ pos'.roundIndex = 12)
  /\ pos.step = "theta" => (pos'.step = "rhoPi" /\ pos'.roundIndex = pos.roundIndex)
  /\ pos.step = "rhoPi" => (pos'.step \in {"rhoPi", "chi"} /\ pos'.roundIndex = pos.roundIndex)
  /\ pos.step = "chi" => (pos'.step = "iota" /\ pos'.roundIndex = pos.roundIndex)
  /\ pos.step = "iota" =>
       /\ pos'.roundIndex = pos.roundIndex + 1
       /\ pos'.step = IF pos.roundIndex = 23 THEN "return" ELSE "theta"
       /\ \A h \in DOMAIN ctx :
            /\ ctx'[h].state[0] = Xor(ctx[h].state[0], StandardRC(pos.roundIndex))
            /\ \A i \in 1 .. STATE_SIZE - 1 : ctx'[h].state[i] = ctx[h].state[i]
  /\ pos.step = "return" => pos'.step = "idle"

\* C21 (round schedule): one call of the permutation performs 12 rounds, with
\* round indices 12, 13, ..., 23 in ascending order; each round applies theta,
\* then rho and pi, then chi, then iota; the constant XORed into lane 0 in
\* round i is RC[i] of the standard table of Keccak-f[1600]; and the schedule
\* is the same for both rates.
RoundSchedule == []InSchedule /\ []StepsMakePermutation /\ [][ScheduledStep]_vars

\* round 23 of a permutation of the rate-136 variant has made its iota step
Round23Done ==
  /\ pos.step = "return"
  /\ pos.roundIndex = 24
  /\ \E h \in DOMAIN ctx : ctx[h].rate = 136 /\ Len(msg[h]) = 3

\* the point reached after k + 1 moves from (1, 0), each to (y, (2x + 3y) mod 5),
\* and its lane x + 5y
WalkPoint(k) == For(0, k + 1, << 1, 0 >>, LAMBDA i, c : << c[2], (2 * c[1] + 3 * c[2]) % 5 >>)
WalkLane(k) == WalkPoint(k)[1] + 5 * WalkPoint(k)[2]
\* the 64-bit value v rotated left by n, circularly
Rot(v, n) == {(i + n) % 64 : i \in v}

\* C22 (rho/pi walk): after t steps of the walk from (1, 0) the lanes written
\* are t different lanes among 1 .. 24, never lane 0; the lane of step k holds
\* the value the lane of step k - 1 (lane 1 for k = 0) had when the loop
\* started, rotated left by ((k+1)(k+2)/2) mod 64; every other lane is as it
\* was; and after 24 steps every lane 1 .. 24 has been written once, the last
\* one being lane 1.
RhoPiWalk ==
  \A h \in DOMAIN ctx :
    pos.step \in {"rhoPi", "chi"} =>
      LET t       == pos.t
          written == {WalkLane(k) : k \in 0 .. t - 1}
      IN /\ Cardinality(written) = t
         /\ written \subseteq 1 .. 24
         /\ \A k \in 0 .. t - 1 :
              ctx[h].state[WalkLane(k)]
                = Rot(pos.entered[IF k = 0 THEN 1 ELSE WalkLane(k - 1)],
                      (((k + 1) * (k + 2)) \div 2) % 64)
         /\ \A lane \in (0 .. STATE_SIZE - 1) \ written : ctx[h].state[lane] = pos.entered[lane]
         /\ t > 0 => /\ pos.current = pos.entered[WalkLane(t - 1)]
                     /\ << pos.x, pos.y >> = WalkPoint(t - 1)
         /\ pos.step = "chi" => (t = 24 /\ written = 1 .. 24 /\ WalkLane(23) = 1)

\* the walk of round 23 has made its 24 steps
WalkComplete ==
  /\ pos.step = "chi"
  /\ pos.t = 24
  /\ pos.roundIndex = 23
  /\ \E h \in DOMAIN ctx : ctx[h].state[1] # pos.entered[1]

\* shifts below, at and above the lane width
RotationShifts == {0, 1, 63, 64, 65, 127, 128}
\* the 64-bit values rotated: the lanes of h, and the values with no bit, one
\* end bit, and every bit
RotatedValues(h) ==
  {ctx[h].state[lane] : lane \in 0 .. STATE_SIZE - 1} \cup {{}, {0}, {63}, 0 .. 63}

\* C23 (64-bit lane arithmetic): after every xorBlock, every permutation step
\* and every finalization each of the 25 lanes is an integer in [0, 2^64 - 1];
\* and rotl64(v, s) of a 64-bit value v is v rotated left circularly by
\* s mod 64, so that rotl64(v, 0) = v and rotl64(v, 64) = v.
LaneArithmetic ==
  \A h \in DOMAIN ctx :
    /\ DOMAIN ctx[h].state = 0 .. STATE_SIZE - 1
    /\ \A lane \in 0 .. STATE_SIZE - 1 : ctx[h].state[lane] \subseteq 0 .. 63
    /\ \A v \in RotatedValues(h) :
         /\ rotl64(v, 0) = v
         /\ rotl64(v, 64) = v
         /\ \A s \in RotationShifts : rotl64(v, s) = Rot(v, s % 64)

\* a finalization is complete and a lane has bit 63 set and bit 0 clear: its
\* rotation by one wraps around
TopBitWraps ==
  /\ pos.step = "idle"
  /\ \E h \in DOMAIN ctx :
       /\ ctx[h].finalized
       /\ \E lane \in 0 .. STATE_SIZE - 1 :
            /\ 63 \in ctx[h].state[lane]
            /\ 0 \notin ctx[h].state[lane]
            /\ 0 \in rotl64(ctx[h].state[lane], 1)
====
